---- MODULE Spec2Model ----
(***************************************************************************)
(* Model of the POS_MultiLocation data layer: the React context providers  *)
(* (Cart, Sales, Return, Purchase, Stock, Vendor, Category, Location,      *)
(* Auth) running in several browser sessions against one shared document  *)
(* store.  Every async handler is split at its awaits: the synchronous     *)
(* prefix (reads of the provider state captured by the handler's closure)  *)
(* is one step, each awaited store round trip is another.                  *)
(***************************************************************************)
EXTENDS Integers, Sequences, FiniteSets, TLC

\* ------------------------------------------------------------------ bounds
MaxQty == 2
MaxInFlight == 1
MaxDocs == 2
MaxFetch == 1
MaxScopeDocs == 1
MaxInvoice == 3

\* -------------------------------------------------------------- universes
Sessions == {"s1", "s2"}
Products == {"p1", "p2"}
Null == "null"
Locations == {"L1", "L2"}
NoProduct == -1000

\* product.locationId of each product document (p2 is a legacy, unscoped one)
ProductLocation == [p \in Products |-> IF p = "p1" THEN "L1" ELSE Null]

Collections ==
  {"sales", "returns", "purchases", "stockUpdates", "vendors", "categories"}
Restricted == {"admin", "manager", "salesperson"}
UserIds == {"root", "adm", "mgr", "sal"}
All == "all"

VARIABLES
  quantity,         \* store: products/<id>.quantity
  users,            \* store: users/<uid> (role, locationId, isActive)
  locs,             \* store: ids of the documents of the locations collection
  locationActive,   \* store: locations/<id>.isActive
  counter,          \* store: counters/sales (exists, currentCount)
  coll,             \* the location-scoped collection whose provider is observed
  docs,             \* store: the documents of that collection
  currentUser,      \* per session: AuthProvider.currentUser
  firebaseUser,     \* per session: auth.currentUser (uid of the signed-in account)
  authTask,         \* per session: login calls and auth-state callbacks awaiting
  locations,        \* per session: LocationProvider.locations
  currentLocation,  \* per session: LocationProvider.currentLocation
  locTask,          \* per session: refreshLocations calls awaiting the store
  list,             \* per session: the provider's list (sales, returns, ...)
  fetch,            \* per session: refresh queries awaiting the store
  products,         \* per session: ProductContext.products (quantity per id)
  items,            \* per session: CartProvider.items (quantity per productId)
  pending,          \* per session: handlers suspended at an await
  initialQuantity,  \* the stored quantities the run started from
  watch,            \* whether the round-trip observer is switched on
  overlap,          \* how many handlers of one session may await at once
  backlog,          \* how many refresh queries of one session may await at once
  listening,        \* whether the onAuthStateChanged callbacks are followed
  report,           \* per session: how the last failed handler reported
  trip              \* per session: observer of addItem-then-removeItem

authVars == <<users, currentUser, firebaseUser, authTask>>
locVars == <<locs, locationActive, locations, currentLocation, locTask>>
collVars == <<coll, docs, list, fetch>>
cartVars == <<products, items, trip>>
fixedVars == <<initialQuantity, watch, overlap, backlog, listening>>
obsVars == <<fixedVars, report>>

vars == <<quantity, counter, pending, authVars, locVars, collVars, cartVars,
          obsVars>>

\* ------------------------------------------------------ users and scoping
Profile(u) ==
  CASE u = "root" -> [role |-> "superadmin", locationId |-> Null, isActive |-> TRUE]
    [] u = "adm" -> [role |-> "admin", locationId |-> "L1", isActive |-> TRUE]
    [] u = "mgr" -> [role |-> "manager", locationId |-> Null, isActive |-> TRUE]
    [] OTHER -> [role |-> "salesperson", locationId |-> "L2", isActive |-> TRUE]

\* currentUser === null
NoUser == [uid |-> "none", role |-> "none", locationId |-> Null, isActive |-> FALSE]

\* getUserWithRole: the profile as read from users/<uid>
UserOf(u) ==
  [uid |-> u, role |-> users[u].role, locationId |-> users[u].locationId,
   isActive |-> users[u].isActive]

\* the branch chain every refresh<Collection> builds its query with
ScopedQuery(cl, u) ==
  IF cl # Null THEN cl
  ELSE IF u.role \in Restricted /\ u.locationId # Null THEN u.locationId
  ELSE All

\* getDocs(q): the documents the query selects
RunQuery(D, f) == IF f = All THEN D ELSE {d \in D : d.locationId = f}

EmptyList == [docs |-> {}, filter |-> All, user |-> NoUser]

\* the effect on [currentLocation, currentUser]: the provider's refresh builds
\* its query from the values of the render that scheduled it
CanFetch(s) == Cardinality(fetch[s]) < backlog

IssueFetch(s, cl, u) ==
  [fetch EXCEPT ![s] = @ \cup {[filter |-> ScopedQuery(cl, u), user |-> u]}]

\* locationsData[0] after the sort by name
NameRank == [l \in Locations |-> IF l = "L1" THEN 1 ELSE 2]
First(L) == CHOOSE l \in L : \A k \in L : NameRank[l] <= NameRank[k]

\* the documents refreshLocations reads for the user of its closure
LocationsFor(u) ==
  IF u.role = "superadmin" THEN locs
  ELSE IF u.locationId # Null THEN locs \cap {u.locationId}
  ELSE locs

\* the location refreshLocations selects; Keep when it calls no setter
Keep == "keep"
Selected(data, u, cl) ==
  IF data = {} THEN Null
  ELSE IF u.locationId # Null
       THEN IF u.locationId \in data THEN u.locationId
            ELSE IF u.role # "superadmin" THEN First(data) ELSE Keep
       ELSE IF cl = Null THEN First(data) ELSE Keep

\* the locationId an add<Record> stores: the selected location, else the user's
ResolveLocation(cl, u) == IF cl # Null THEN cl ELSE u.locationId

\* addSale starts from saleData.locationId (the user's own location)
ResolveSaleLocation(given, cl, u) ==
  IF given # Null THEN given ELSE ResolveLocation(cl, u)

\* if (!locationId && currentUser?.role !== 'superadmin') throw
NoLocationError(locationId, u) == locationId = Null /\ u.role # "superadmin"

\* ----------------------------------------------------------- cart helpers
Idle == [phase |-> "idle", p |-> "p1", pre |-> 0, held |-> 0, fresh |-> TRUE]

Slots == 1..(MaxInFlight + 1)

FreeSlot(s) ==
  CHOOSE k \in Slots :
    /\ \A t \in pending[s] : t.slot # k
    /\ \A j \in Slots : j < k => \E t \in pending[s] : t.slot = j

Task(s, op, p, q, n) ==
  [slot |-> FreeSlot(s), op |-> op, pc |-> "updateProduct", productId |-> p,
   quantity |-> q, n |-> n]

\* products.find(p => p.id === id): the locally held quantity, or NoProduct
Find(s, p) == products[s][p]

\* what updateProduct leaves in the session's product list: the reloaded store
Reload(q) == [p \in Products |-> q[p]]

\* addItem line 42
AddItemRejectsM(cur) == cur = NoProduct \/ cur < 0
AddItemRejects(cur) == cur = NoProduct \/ cur <= 0

\* addItem line 47
WrongLocationM(loc, p) == FALSE
WrongLocation(loc, p) ==
  loc # Null /\ ProductLocation[p] # Null /\ ProductLocation[p] # loc

\* addItem line 56
AddItemQuantityM(cur) == cur
AddItemQuantity(cur) == cur - 1

\* removeItem line 95
RemoveItemQuantityM(cur, n) == cur + 1
RemoveItemQuantity(cur, n) == cur + n

\* updateQuantity line 114
QuantityDiffM(newQuantity, old) == newQuantity
QuantityDiff(newQuantity, old) == newQuantity - old

\* updateQuantity lines 106 and 117
UpdateRejectsM(newQuantity, cur, diff) == newQuantity < 1
UpdateRejects(newQuantity, cur, diff) ==
  newQuantity < 1 \/ (diff > 0 /\ cur < diff)

\* clearCart line 142: the stored quantities clearCart leaves behind
ClearCartLedgerM(q, cart) == [p \in Products |-> q[p] + cart[p]]
ClearCartLedger(q, cart) == q

EmptyCart == [p \in Products |-> 0]

CanStart(s) == Cardinality(pending[s]) < overlap

\* ------------------------------------------------ failure reports
\* Off: the reports are not recorded in this run
Off == "off"

\* the reports are recorded: no handler of the session has failed yet
NoFailure == "none"

\* the last failure of a handler of session s was reported the way v
Report(s, v) == IF report[s] = Off THEN report ELSE [report EXCEPT ![s] = v]

NoReports ==
  /\ overlap = MaxInFlight
  /\ report = [s \in Sessions |-> Off]

\* ------------------------------------------------ round-trip observer
\* a store write to product p by session s ends every observation of p made
\* by another session
Disturb(tr, s, p) ==
  [t \in Sessions |->
     IF t # s /\ tr[t].phase # "idle" /\ tr[t].p = p THEN Idle ELSE tr[t]]

\* the observation of session s moves on when s starts or settles a handler
Observe(s, op, p, step) ==
  IF ~watch THEN trip
  ELSE IF step = "start" /\ op = "addItem" /\ pending[s] = {}
  THEN [trip EXCEPT ![s] = [phase |-> "adding", p |-> p, pre |-> quantity[p],
                            held |-> items[s][p],
                            fresh |-> Find(s, p) = quantity[p]]]
  ELSE IF step = "settle" /\ op = "addItem" /\ trip[s].phase = "adding"
  THEN [trip EXCEPT ![s].phase = "added"]
  ELSE IF step = "start" /\ op = "removeItem" /\ pending[s] = {}
          /\ trip[s].phase = "added" /\ trip[s].p = p
  THEN [trip EXCEPT ![s].phase = "removing"]
  ELSE IF step = "settle" /\ op = "removeItem" /\ trip[s].phase = "removing"
  THEN [trip EXCEPT ![s].phase = "done"]
  ELSE [trip EXCEPT ![s] = Idle]

\* ------------------------------------------------------------ cart actions
\* the handler returns before its await: nothing but the outcome changes
Return(s, op) ==
  /\ trip' = Observe(s, op, "p1", "return")
  /\ UNCHANGED <<quantity, counter, pending, authVars, locVars, collVars,
                 products, items, obsVars>>

\* the handler reaches its await on updateProduct(p, {..., quantity: q})
Suspend(s, op, p, q, n) ==
  /\ q <= MaxQty
  /\ pending' = [pending EXCEPT ![s] = @ \cup {Task(s, op, p, q, n)}]
  /\ trip' = Observe(s, op, p, "start")
  /\ report' = Report(s, NoFailure)
  /\ UNCHANGED <<quantity, counter, authVars, locVars, collVars, products,
                 items, fixedVars>>

\* updateProduct rejects: the catch block logs, the cart is left alone
Fail(s, t) ==
  /\ pending' = [pending EXCEPT ![s] = @ \ {t}]
  /\ trip' = Observe(s, t.op, t.productId, "fail")
  /\ report' = Report(s, "logged")
  /\ UNCHANGED <<quantity, counter, authVars, locVars, collVars, products,
                 items, fixedVars>>

\* updateProduct resolves, then setItems(updater) runs on the current cart
Settle(s, t, n) ==
  /\ quantity' = [quantity EXCEPT ![t.productId] = t.quantity]
  /\ products' = [products EXCEPT ![s] = Reload(quantity')]
  /\ items' = [items EXCEPT ![s][t.productId] = n]
  /\ pending' = [pending EXCEPT ![s] = @ \ {t}]
  /\ trip' = Disturb(Observe(s, t.op, t.productId, "settle"), s, t.productId)
  /\ UNCHANGED <<counter, authVars, locVars, collVars, obsVars>>

AddItem(s, p) ==
  /\ CanStart(s)
  /\ LET cur == Find(s, p) IN
     IF AddItemRejects(cur) \/ WrongLocation(currentLocation[s], p)
     THEN Return(s, "addItem")
     ELSE /\ items[s][p] < MaxQty
          /\ Suspend(s, "addItem", p, AddItemQuantity(cur), 0)

AddItemDone(s) ==
  \E t \in pending[s] :
    /\ t.op = "addItem"
    /\ \/ Settle(s, t, items[s][t.productId] + 1)
       \/ Fail(s, t)

RemoveItem(s, p) ==
  /\ CanStart(s)
  /\ IF items[s][p] = 0 \/ Find(s, p) = NoProduct
     THEN Return(s, "removeItem")
     ELSE Suspend(s, "removeItem", p,
                  RemoveItemQuantity(Find(s, p), items[s][p]), 0)

RemoveItemDone(s) ==
  \E t \in pending[s] :
    /\ t.op = "removeItem"
    /\ \/ Settle(s, t, 0)
       \/ Fail(s, t)

UpdateQuantity(s, p, newQuantity) ==
  /\ CanStart(s)
  /\ LET diff == QuantityDiff(newQuantity, items[s][p]) IN
     IF \/ items[s][p] = 0
        \/ Find(s, p) = NoProduct
        \/ UpdateRejects(newQuantity, Find(s, p), diff)
     THEN Return(s, "updateQuantity")
     ELSE Suspend(s, "updateQuantity", p, Find(s, p) - diff, newQuantity)

UpdateQuantityDone(s) ==
  \E t \in pending[s] :
    /\ t.op = "updateQuantity"
    /\ \/ Settle(s, t, IF items[s][t.productId] > 0 THEN t.n ELSE 0)
       \/ Fail(s, t)

\* ProductContext reloads the product list from the store
RefreshProducts(s) ==
  /\ products[s] # Reload(quantity)
  /\ products' = [products EXCEPT ![s] = Reload(quantity)]
  /\ UNCHANGED <<quantity, counter, pending, authVars, locVars, collVars,
                 items, trip, obsVars>>

\* ------------------------------------------- sessions: users and locations
\* setCurrentUser(u): the effects on currentUser run refreshLocations and the
\* provider's refresh with the location of the render they were scheduled in
Signed(s, u) ==
  /\ CanFetch(s)
  /\ Cardinality(locTask[s]) < backlog
  /\ currentUser' = [currentUser EXCEPT ![s] = u]
  /\ locTask' = [locTask EXCEPT
                   ![s] = @ \cup {[user |-> u, loc |-> currentLocation[s]]}]
  /\ fetch' = IssueFetch(s, currentLocation[s], u)
  /\ UNCHANGED <<quantity, counter, pending, locs, locationActive, locations,
                 currentLocation, coll, docs, list, cartVars, obsVars>>

\* onAuthStateChanged: the callback is queued when the account signed in at
\* Firebase changes (callbacks for the same account are followed as one)
Notify(s, uid) ==
  IF listening /\ firebaseUser[s] # uid
  THEN [authTask EXCEPT
          ![s] = @ \cup {[op |-> "listener", pc |-> "read", uid |-> uid,
                          loc |-> Null]}]
  ELSE authTask

\* a completed sign-in or sign-out followed by setCurrentUser(u)
SetUser(s, u) ==
  /\ Signed(s, u)
  /\ firebaseUser' = [firebaseUser EXCEPT ![s] = u.uid]
  /\ authTask' = Notify(s, u.uid)
  /\ UNCHANGED users

Login(s, uid) ==
  /\ currentUser[s] = NoUser
  /\ UserOf(uid).role = "superadmin" \/ UserOf(uid).isActive
  /\ SetUser(s, UserOf(uid))

Logout(s) ==
  /\ currentUser[s] # NoUser
  /\ SetUser(s, NoUser)

\* a refreshLocations call gets its answer from the store, or fails
LocationsLoaded(s) ==
  \E t \in locTask[s] :
    /\ locTask' = [locTask EXCEPT ![s] = @ \ {t}]
    /\ \/ UNCHANGED <<locations, currentLocation, fetch>>
       \/ LET data == LocationsFor(t.user)
              sel == Selected(data, t.user, t.loc)
          IN /\ locations' = [locations EXCEPT ![s] = data]
             /\ IF sel = Keep \/ (sel = Null /\ currentLocation[s] = Null)
                THEN UNCHANGED <<currentLocation, fetch>>
                ELSE /\ CanFetch(s)
                     /\ currentLocation' = [currentLocation EXCEPT ![s] = sel]
                     /\ fetch' = IssueFetch(s, sel, currentUser[s])
    /\ UNCHANGED <<quantity, counter, pending, authVars, locs, locationActive,
                   coll, docs, list, cartVars, obsVars>>

\* LocationSelector: the superadmin picks one of the loaded locations
SelectLocation(s, l) ==
  /\ currentUser[s].role = "superadmin"
  /\ l \in locations[s]
  /\ l # currentLocation[s]
  /\ CanFetch(s)
  /\ currentLocation' = [currentLocation EXCEPT ![s] = l]
  /\ fetch' = IssueFetch(s, l, currentUser[s])
  /\ UNCHANGED <<quantity, counter, pending, authVars, locs, locationActive,
                 locations, locTask, coll, docs, list, cartVars, obsVars>>

\* a refresh query gets its answer (setSales(...)), or fails (catch: setError)
FetchDone(s) ==
  \E f \in fetch[s] :
    /\ fetch' = [fetch EXCEPT ![s] = @ \ {f}]
    /\ \/ list' = [list EXCEPT ![s] = [docs |-> RunQuery(docs, f.filter),
                                       filter |-> f.filter, user |-> f.user]]
       \/ UNCHANGED list
    /\ UNCHANGED <<quantity, counter, pending, authVars, locVars, coll, docs,
                   cartVars, obsVars>>

\* ------------------------------------------------ handlers that add records
NewId(D) == Cardinality(D) + 1

InFlight(op) ==
  Cardinality({x \in Sessions \X Slots :
                 \E t \in pending[x[1]] : t.slot = x[2] /\ t.op = op})

\* room for one more record of the observed collection
Room(op) == Cardinality(docs) + InFlight(op) < MaxDocs

Replace(s, t, u) == [pending EXCEPT ![s] = (@ \ {t}) \cup {u}]

\* a catch block that logs the error and does not rethrow it
ThrowM(s, t) ==
  /\ pending' = [pending EXCEPT ![s] = @ \ {t}]
  /\ report' = Report(s, "logged")
  /\ UNCHANGED <<quantity, counter, authVars, locVars, collVars, cartVars,
                 fixedVars>>

\* the handler throws (or its await rejects): the task is gone, nothing else
Throw(s, t) ==
  /\ pending' = [pending EXCEPT ![s] = @ \ {t}]
  /\ report' = Report(s, "thrown")
  /\ UNCHANGED <<quantity, counter, authVars, locVars, collVars, cartVars,
                 fixedVars>>

\* await addDoc(collection(db, coll), {...}): the handler goes on to its
\* await refresh<Collection>()
Insert(s, t, doc) ==
  /\ docs' = docs \cup {doc}
  /\ pending' = Replace(s, t, [t EXCEPT !.pc = "refresh", !.docId = doc.id])
  /\ UNCHANGED <<quantity, counter, authVars, locVars, coll, list, fetch,
                 cartVars, obsVars>>

\* the handler's own refresh<Collection>() settles (it catches its errors):
\* addSale returns to handleConfirmCheckout, the other handlers are done
Refreshed(s) ==
  \E t \in pending[s] :
    /\ t.pc = "refresh"
    /\ \/ list' = [list EXCEPT ![s] = [docs |-> RunQuery(docs, t.filter),
                                       filter |-> t.filter, user |-> t.user]]
       \/ UNCHANGED list
    /\ pending' = IF t.op = "addSale"
                  THEN Replace(s, t, [t EXCEPT !.pc = "clear"])
                  ELSE [pending EXCEPT ![s] = @ \ {t}]
    /\ UNCHANGED <<quantity, counter, authVars, locVars, coll, docs, fetch,
                   cartVars, obsVars>>

\* the stored purchase or stock update names its creator, the stored vendor
\* or category does not
PlainDoc(t) ==
  IF t.op \in {"addVendor", "addCategory"}
  THEN [id |-> NewId(docs), locationId |-> t.locationId]
  ELSE [id |-> NewId(docs), locationId |-> t.locationId,
        createdBy |-> t.user.uid]

\* what add<Record> captures from the render it was called in
Closure(s, op, pc, locationId) ==
  [slot |-> FreeSlot(s), op |-> op, pc |-> pc, locationId |-> locationId,
   user |-> currentUser[s],
   filter |-> ScopedQuery(currentLocation[s], currentUser[s]), docId |-> 0]

\* the handler starts with setError(null) and reaches its first await
Begin(s, t) ==
  /\ pending' = [pending EXCEPT ![s] = @ \cup {t}]
  /\ trip' = Observe(s, t.op, "p1", "start")
  /\ report' = Report(s, NoFailure)
  /\ UNCHANGED <<quantity, counter, authVars, locVars, collVars, products,
                 items, fixedVars>>

\* the handler throws before its first await
Refuse(s, op) ==
  /\ trip' = Observe(s, op, "p1", "return")
  /\ report' = Report(s, "thrown")
  /\ UNCHANGED <<quantity, counter, pending, authVars, locVars, collVars,
                 products, items, fixedVars>>

\* ---- addSale, called by handleConfirmCheckout
NoCounter == [exists |-> FALSE, currentCount |-> 0]

\* getNextInvoiceNumber lines 446-449
NextCount(c) == IF c.exists THEN c.currentCount + 1 ELSE 1

\* the sales whose addSale has returned
Completed ==
  {d.id : d \in docs} \
    {t.docId : t \in {u \in UNION {pending[s] : s \in Sessions} :
                        u.op = "addSale" /\ u.pc \in {"refresh", "clear"}}}

\* ---- the cart totals (CartProvider, recomputed at every render)
\* amounts are kept in thousandths of a rupee, so that 2.5% of a whole-rupee
\* subtotal is a whole number
Milli == 1000

\* GST_RATE = 0.05, in thousandths
GstRate == 50

\* item.price, in rupees
Price == [p \in Products |-> IF p = "p1" THEN 10 ELSE 25]

RECURSIVE SumOver(_, _)
SumOver(f, S) ==
  IF S = {} THEN 0
  ELSE LET x == CHOOSE y \in S : TRUE IN f[x] + SumOver(f, S \ {x})

\* items.reduce((sum, item) => sum + item.price * item.quantity, 0)
Subtotal(cart) ==
  SumOver([p \in Products |-> Price[p] * cart[p] * Milli], Products)

\* subtotal * (GST_RATE / 2)
CgstM(subtotal) == (subtotal * GstRate) \div Milli
Cgst(subtotal) == (subtotal * (GstRate \div 2)) \div Milli
Sgst(subtotal) == (subtotal * (GstRate \div 2)) \div Milli

Total(subtotal, cgst, sgst) == subtotal + cgst + sgst

\* subtotal, cgst, sgst, total of the render handleConfirmCheckout runs in
Totals(cart) ==
  LET sub == Subtotal(cart) IN
  [subtotal |-> sub, cgst |-> Cgst(sub), sgst |-> Sgst(sub),
   total |-> Total(sub, Cgst(sub), Sgst(sub))]

Checkout(s) ==
  /\ coll = "sales"
  /\ CanStart(s)
  /\ currentUser[s] # NoUser
  /\ items[s] # EmptyCart
  /\ Room("addSale")
  /\ NextCount(counter) + InFlight("addSale") <= MaxInvoice
  /\ LET u == currentUser[s]
         loc == ResolveSaleLocation(u.locationId, currentLocation[s], u)
     IN Begin(s, Closure(s, "addSale", "getCounter", loc) @@
                 [count |-> 0, items |-> items[s], after |-> Completed] @@
                 Totals(items[s]))

GetCounter(s) ==
  \E t \in pending[s] :
    /\ t.op = "addSale" /\ t.pc = "getCounter"
    /\ \/ /\ pending' = Replace(s, t, [t EXCEPT !.pc = "setCounter",
                                                !.count = NextCount(counter)])
          /\ UNCHANGED <<quantity, counter, authVars, locVars, collVars,
                         cartVars, obsVars>>
       \/ Throw(s, t)

SetCounter(s) ==
  \E t \in pending[s] :
    /\ t.op = "addSale" /\ t.pc = "setCounter"
    /\ \/ /\ counter' = [exists |-> TRUE, currentCount |-> t.count]
          /\ pending' = Replace(s, t, [t EXCEPT !.pc = "addDoc"])
          /\ UNCHANGED <<quantity, authVars, locVars, collVars, cartVars,
                         obsVars>>
       \/ Throw(s, t)

SaleDoc(t) ==
  [id |-> NewId(docs), locationId |-> t.locationId, createdBy |-> t.user.uid,
   invoice |-> t.count, items |-> t.items, after |-> t.after,
   subtotal |-> t.subtotal, cgst |-> t.cgst, sgst |-> t.sgst,
   total |-> t.total]

AddSaleDoc(s) ==
  \E t \in pending[s] :
    /\ t.op = "addSale" /\ t.pc = "addDoc"
    /\ IF NoLocationError(t.locationId, t.user)
       THEN Throw(s, t)
       ELSE \/ Insert(s, t, SaleDoc(t))
            \/ Throw(s, t)

\* handleConfirmCheckout line 225, after addSale has returned
ClearCart(s) ==
  \E t \in pending[s] :
    /\ t.op = "addSale" /\ t.pc = "clear"
    /\ items' = [items EXCEPT ![s] = EmptyCart]
    /\ quantity' = ClearCartLedger(quantity, items[s])
    /\ pending' = [pending EXCEPT ![s] = @ \ {t}]
    /\ UNCHANGED <<counter, authVars, locVars, collVars, products, trip,
                   obsVars>>

\* ---- addVendor, addCategory
AddPlain(s, c, op) ==
  /\ coll = c
  /\ CanStart(s)
  /\ currentUser[s] # NoUser
  /\ Room(op)
  /\ LET loc == ResolveLocation(currentLocation[s], currentUser[s]) IN
     IF NoLocationError(loc, currentUser[s])
     THEN Refuse(s, op)
     ELSE Begin(s, Closure(s, op, "addDoc", loc))

AddVendor(s) == AddPlain(s, "vendors", "addVendor")

AddCategory(s) == AddPlain(s, "categories", "addCategory")

\* ---- addPurchase, addStockUpdate
\* data.quantity of a stock update: an addition or a deduction
Amounts == (0 - MaxQty)..MaxQty \ {0}

AddPurchase(s, p, n) ==
  /\ coll = "purchases"
  /\ CanStart(s)
  /\ currentUser[s] # NoUser
  /\ Room("addPurchase")
  /\ LET loc == ResolveLocation(currentLocation[s], currentUser[s]) IN
     IF Find(s, p) = NoProduct \/ NoLocationError(loc, currentUser[s])
     THEN Refuse(s, "addPurchase")
     ELSE /\ Find(s, p) + n <= MaxQty
          /\ Begin(s, Closure(s, "addPurchase", "updateProduct", loc) @@
                      [productId |-> p, quantity |-> Find(s, p) + n])

\* addStockUpdate line 125
ForeignProduct(p, loc) == ProductLocation[p] # Null /\ ProductLocation[p] # loc

AddStockUpdate(s, p, n) ==
  /\ coll = "stockUpdates"
  /\ CanStart(s)
  /\ currentUser[s] # NoUser
  /\ Room("addStockUpdate")
  /\ LET loc == ResolveLocation(currentLocation[s], currentUser[s]) IN
     IF \/ Find(s, p) = NoProduct
        \/ NoLocationError(loc, currentUser[s])
        \/ ForeignProduct(p, loc)
     THEN Refuse(s, "addStockUpdate")
     ELSE /\ Find(s, p) + n <= MaxQty
          /\ Find(s, p) + n >= 0 - MaxQty
          /\ Begin(s, Closure(s, "addStockUpdate", "updateProduct", loc) @@
                      [productId |-> p, quantity |-> Find(s, p) + n])

\* await updateProduct(product.id, {...product, quantity: ...})
LedgerWritten(s) ==
  \E t \in pending[s] :
    /\ t.op \in {"addPurchase", "addStockUpdate"} /\ t.pc = "updateProduct"
    /\ \/ /\ quantity' = [quantity EXCEPT ![t.productId] = t.quantity]
          /\ products' = [products EXCEPT ![s] = Reload(quantity')]
          /\ pending' = Replace(s, t, [t EXCEPT !.pc = "addDoc"])
          /\ trip' = Disturb(trip, s, t.productId)
          /\ UNCHANGED <<counter, authVars, locVars, collVars, items, obsVars>>
       \/ Throw(s, t)

\* await addDoc(collection(db, coll), {...})
RecordAdded(s) ==
  \E t \in pending[s] :
    /\ t.op \in {"addPurchase", "addStockUpdate", "addVendor", "addCategory"}
    /\ t.pc = "addDoc"
    /\ \/ Insert(s, t, PlainDoc(t))
       \/ Throw(s, t)

\* ---- addReturn
\* the documents a Return refers to: o1 is a sale, o2 a purchase
Orders == {"o1", "o2"}
OrderType == [o \in Orders |-> IF o = "o1" THEN "sale" ELSE "purchase"]
ReturnItems == {"i1", "i2"}
MaxItems == 2

\* item.productId and item.quantity of the items of an order: two lines of
\* the same product
ItemProduct == [i \in ReturnItems |-> "p1"]
ItemQuantity == [i \in ReturnItems |-> 1]

\* data.items: the items picked from the order, each at most once
Selections ==
  {sq \in UNION {[1..n -> ReturnItems] : n \in 1..MaxItems} :
     \A j, k \in 1..Len(sq) : j # k => sq[j] # sq[k]}

\* a validation that never finds a returned item
IsItemReturnedM(R, orderId, itemId) == FALSE

\* isItemReturned over the session's in-memory returns
IsItemReturned(R, orderId, itemId) ==
  \E r \in R : /\ r.referenceId = orderId
               /\ \E k \in 1..Len(r.items) : r.items[k] = itemId

\* addReturn line 357
QuantityChange(type, n) == IF type = "sale" THEN n ELSE 0 - n

\* addReturn lines 359-362: item k is written from the product list of the
\* render addReturn was called in
ReturnQuantity(t, k) ==
  t.products[ItemProduct[t.items[k]]]
    + QuantityChange(t.type, ItemQuantity[t.items[k]])

AddReturn(s, type, ref, its) ==
  /\ coll = "returns"
  /\ CanStart(s)
  /\ currentUser[s] # NoUser
  /\ LET loc == ResolveLocation(currentLocation[s], currentUser[s])
         t == Closure(s, "addReturn", "updateProduct", loc) @@
              [type |-> type, referenceId |-> ref, items |-> its, k |-> 1,
               products |-> products[s]]
     IN IF \/ \E k \in 1..Len(its) :
                IsItemReturned(list[s].docs, ref, its[k])
           \/ NoLocationError(loc, currentUser[s])
           \/ Find(s, ItemProduct[its[1]]) = NoProduct
        THEN Refuse(s, "addReturn")
        ELSE /\ Room("addReturn")
             /\ \A k \in 1..Len(its) :
                  ReturnQuantity(t, k) \in (0 - MaxQty)..MaxQty
             /\ Begin(s, t)

\* await updateProduct(...) of item k, then the find of item k + 1
ReturnWritten(s) ==
  \E t \in pending[s] :
    /\ t.op = "addReturn" /\ t.pc = "updateProduct"
    /\ \/ /\ quantity' = [quantity EXCEPT ![ItemProduct[t.items[t.k]]] =
                                            ReturnQuantity(t, t.k)]
          /\ products' = [products EXCEPT ![s] = Reload(quantity')]
          /\ pending' =
               IF t.k = Len(t.items)
               THEN Replace(s, t, [t EXCEPT !.pc = "addDoc"])
               ELSE IF t.products[ItemProduct[t.items[t.k + 1]]] = NoProduct
               THEN [pending EXCEPT ![s] = @ \ {t}]
               ELSE Replace(s, t, [t EXCEPT !.k = t.k + 1])
          /\ trip' = Disturb(trip, s, ItemProduct[t.items[t.k]])
          /\ UNCHANGED <<counter, authVars, locVars, collVars, items, obsVars>>
       \/ Throw(s, t)

ReturnDoc(t) ==
  [id |-> NewId(docs), locationId |-> t.locationId, createdBy |-> t.user.uid,
   type |-> t.type, referenceId |-> t.referenceId, items |-> t.items]

\* await addDoc(collection(db, 'returns'), returnData)
ReturnAdded(s) ==
  \E t \in pending[s] :
    /\ t.op = "addReturn" /\ t.pc = "addDoc"
    /\ \/ Insert(s, t, ReturnDoc(t))
       \/ Throw(s, t)

CartStep ==
  \E s \in Sessions :
    \/ \E p \in Products : AddItem(s, p)
    \/ AddItemDone(s)
    \/ \E p \in Products : RemoveItem(s, p)
    \/ RemoveItemDone(s)
    \/ \E p \in Products, n \in 0..MaxQty : UpdateQuantity(s, p, n)
    \/ UpdateQuantityDone(s)
    \/ RefreshProducts(s)

\* the cart sessions: s1 is the superadmin (its location list not loaded when
\* it has no location selected), s2 a salesperson at its own location
TwoSessions(c) ==
  /\ users = [u \in UserIds |-> Profile(u)]
  /\ locs = Locations
  /\ locationActive = [l \in Locations |-> TRUE]
  /\ counter = NoCounter
  /\ coll = c
  /\ docs = {}
  /\ currentUser = [s \in Sessions |->
                      IF s = "s1" THEN UserOf("root") ELSE UserOf("sal")]
  /\ firebaseUser = [s \in Sessions |-> currentUser[s].uid]
  /\ authTask = [s \in Sessions |-> {}]
  /\ locations = [s \in Sessions |->
                    IF currentLocation[s] = Null THEN {}
                    ELSE LocationsFor(currentUser[s])]
  /\ locTask = [s \in Sessions |-> {}]
  /\ list = [s \in Sessions |-> EmptyList]
  /\ fetch = [s \in Sessions |-> {}]

\* the first session has no location selected or works at L1, the second
\* works at L2: both reach the unscoped product, only the first reaches p1
CartLocations ==
  {[s \in Sessions |-> IF s = "s1" THEN l ELSE "L2"] : l \in {Null, "L1"}}

InitCart ==
  /\ quantity \in [Products -> 0..MaxQty]
  /\ initialQuantity = quantity
  /\ products = [s \in Sessions |-> [p \in Products |-> NoProduct]]
  /\ items = [s \in Sessions |-> EmptyCart]
  /\ currentLocation \in CartLocations
  /\ pending = [s \in Sessions |-> {}]
  /\ watch = FALSE
  /\ NoReports
  /\ backlog = MaxFetch
  /\ listening = FALSE
  /\ trip = [s \in Sessions |-> Idle]
  /\ TwoSessions("sales")

SpecCart == InitCart /\ [][CartStep]_vars

\* C1: starting from stored quantities >= 0, whatever the interleaving of the
\* read and write steps of addItem, removeItem and updateQuantity in the
\* sessions, no stored product quantity is ever negative.
QuantityNeverNegative == \A p \in Products : quantity[p] >= 0

\* two sessions hold units of one product whose ledger went from 1 or more to 0
QuantityNeverNegativeWitness ==
  \E p \in Products :
    /\ initialQuantity[p] > 0
    /\ quantity[p] = 0
    /\ \A s \in Sessions : items[s][p] > 0

\* ---------------------------------------------------------- addItem alone
AddStep ==
  \E s \in Sessions :
    \/ \E p \in Products : AddItem(s, p)
    \/ AddItemDone(s)
    \/ RefreshProducts(s)

SpecAddRace == InitCart /\ [][AddStep]_vars

\* C10: with two sessions adding a product stored at 1, whenever both
\* sessions' addItem calls have succeeded (each cart holds the product) both
\* read 1 and wrote 0: the stored quantity is 0 although the carts together
\* hold 2 units or more.
LastUnitSoldTwice ==
  \A p \in Products :
    (initialQuantity[p] = 1 /\ \A s \in Sessions : items[s][p] >= 1)
      => quantity[p] = 0

LastUnitSoldTwiceWitness ==
  \E p \in Products :
    /\ initialQuantity[p] = 1
    /\ quantity[p] = 0
    /\ \A s \in Sessions : items[s][p] = 1 /\ pending[s] = {}

\* ------------------------------------------------- round trip, observed
InitTrip ==
  /\ quantity \in [Products -> 0..MaxQty]
  /\ initialQuantity = quantity
  /\ products = [s \in Sessions |-> [p \in Products |-> NoProduct]]
  /\ items = [s \in Sessions |-> EmptyCart]
  /\ currentLocation \in CartLocations
  /\ pending = [s \in Sessions |-> {}]
  /\ watch = TRUE
  /\ NoReports
  /\ backlog = MaxFetch
  /\ listening = FALSE
  /\ trip = [s \in Sessions |-> Idle]
  /\ TwoSessions("sales")

SpecTrip == InitTrip /\ [][CartStep]_vars

\* C8 as stated: a successful addItem(p) followed by removeItem of p's cart
\* item, with no other writer in between, leaves p's stored quantity equal to
\* its value before the addItem, whatever the cart held.
RoundTripRestores ==
  \A s \in Sessions :
    trip[s].phase = "done" => quantity[trip[s].p] = trip[s].pre

\* C8 as amended: when the session's product list showed p's stored quantity
\* at the addItem and no other session wrote p since, addItem(p) followed by
\* removeItem ends with the stored quantity at its value before the addItem
\* plus the units of p the cart already held (removeItem releases the whole
\* cart item): the pre-add value exactly when the cart did not hold p.
RoundTripReleasesItem ==
  \A s \in Sessions :
    (trip[s].phase = "done" /\ trip[s].fresh)
      => quantity[trip[s].p] = trip[s].pre + trip[s].held

RoundTripReleasesItemWitness ==
  \E s \in Sessions :
    /\ trip[s].phase = "done"
    /\ trip[s].fresh
    /\ trip[s].held > 0
    /\ items[s][trip[s].p] = 0

\* ----------------------------------------------------------------- sales
\* both sessions have loaded the products
InitLoaded(c) ==
  /\ quantity \in [Products -> 0..MaxQty]
  /\ initialQuantity = quantity
  /\ products = [s \in Sessions |-> Reload(quantity)]
  /\ items = [s \in Sessions |-> EmptyCart]
  /\ currentLocation \in CartLocations
  /\ pending = [s \in Sessions |-> {}]
  /\ watch = FALSE
  /\ NoReports
  /\ backlog = MaxFetch
  /\ listening = FALSE
  /\ trip = [s \in Sessions |-> Idle]
  /\ TwoSessions(c)

SaleStep ==
  \E s \in Sessions :
    \/ \E p \in Products : AddItem(s, p)
    \/ AddItemDone(s)
    \/ Checkout(s)
    \/ GetCounter(s)
    \/ SetCounter(s)
    \/ AddSaleDoc(s)
    \/ Refreshed(s)
    \/ ClearCart(s)

InitSale == InitLoaded("sales")

SpecSale == InitSale /\ [][SaleStep]_vars

\* C4: no two persisted Sales carry the same invoice counter value, and a
\* Sale whose addSale started after another addSale had completed carries a
\* strictly larger counter value than that Sale.
InvoiceUniqueAndMonotone ==
  \A d1, d2 \in docs :
    /\ d1.id # d2.id => d1.invoice # d2.invoice
    /\ d1.id \in d2.after => d2.invoice > d1.invoice

\* the steps of one checkout: handleConfirmCheckout is entered, addSale moves
\* past an await, or clearCart ends it
CheckoutSteps ==
  \E s \in Sessions :
    \/ \E t \in pending[s] : t.op = "addSale" /\ t \notin pending'[s]
    \/ \E t \in pending'[s] : t.op = "addSale" /\ t \notin pending[s]

\* C9: the checkout path (handleConfirmCheckout: addSale, then clearCart)
\* leaves every product's stored quantity unchanged: none of its steps, from
\* the confirmation to the emptied cart, writes a quantity.
CheckoutKeepsLedger == [][CheckoutSteps => quantity' = quantity]_vars

\* a sale is persisted, its cart emptied, and the stored quantities are still
\* the initial ones less the units the sale holds
CheckoutKeepsLedgerWitness ==
  \E s \in Sessions : \E d \in docs :
    /\ d.createdBy = currentUser[s].uid
    /\ d.items # EmptyCart
    /\ items[s] = EmptyCart
    /\ \A x \in Sessions : pending[x] = {}
    /\ \A p \in Products : quantity[p] + d.items[p] = initialQuantity[p]

\* C12: every Sale persisted through checkout has cgst = sgst and
\* subtotal + cgst + sgst = total, its subtotal being the sum of price times
\* quantity over the snapshotted cart items and cgst, sgst each 2.5% of it.
SaleTotalsConsistent ==
  \A d \in docs :
    /\ d.cgst = d.sgst
    /\ d.subtotal + d.cgst + d.sgst = d.total
    /\ d.subtotal = Subtotal(d.items)
    /\ d.cgst * Milli * 2 = d.subtotal * GstRate

\* a persisted sale of several units with tax on it
SaleTotalsConsistentWitness ==
  \E d \in docs :
    /\ d.subtotal > 0
    /\ d.cgst > 0
    /\ d.total > d.subtotal
    /\ \E p \in Products : d.items[p] > 1

\* --------------------------------------------------------------- returns
InitReturns ==
  /\ InitLoaded("returns")
  /\ currentLocation["s1"] = "L1"
  /\ quantity["p2"] = MaxQty

ReturnStep ==
  \E s \in Sessions :
    \/ \E ref \in Orders, its \in Selections :
         AddReturn(s, OrderType[ref], ref, its)
    \/ ReturnWritten(s)
    \/ ReturnAdded(s)
    \/ Refreshed(s)

SpecReturns == InitReturns /\ [][ReturnStep]_vars

\* C3: in every state of the returns collection no item identifier appears
\* twice in the Returns that reference one Sale: neither in two different
\* persisted Returns with the same referenceId nor twice within one Return.
NoItemReturnedTwice ==
  \A r1, r2 \in docs :
    \A j \in 1..Len(r1.items), k \in 1..Len(r2.items) :
      (r1.referenceId = r2.referenceId /\ r1.items[j] = r2.items[k])
        => (r1.id = r2.id /\ j = k)

\* ---------------------------------------------------------------- ledger
\* every handler that writes a product's quantity, called in one session,
\* with the provider of the returns, the purchases or the stock updates
\* observed
InitLedger ==
  /\ \E c \in {"returns", "purchases", "stockUpdates"} : InitLoaded(c)
  /\ currentLocation["s1"] = "L1"

LedgerStep ==
  \E s \in {"s1"} :
    \/ \E p \in Products : AddItem(s, p)
    \/ AddItemDone(s)
    \/ \E p \in Products : RemoveItem(s, p)
    \/ RemoveItemDone(s)
    \/ \E p \in Products, n \in 0..MaxQty : UpdateQuantity(s, p, n)
    \/ UpdateQuantityDone(s)
    \/ \E ref \in Orders, its \in Selections :
         AddReturn(s, OrderType[ref], ref, its)
    \/ ReturnWritten(s)
    \/ ReturnAdded(s)
    \/ \E p \in Products, n \in 1..MaxQty : AddPurchase(s, p, n)
    \/ \E p \in Products, n \in Amounts : AddStockUpdate(s, p, n)
    \/ LedgerWritten(s)
    \/ RecordAdded(s)
    \/ Refreshed(s)

SpecLedger == InitLedger /\ [][LedgerStep]_vars

\* C2: no user-facing mutating operation (addItem, updateQuantity,
\* removeItem, addReturn of either type, addPurchase, addStockUpdate with a
\* positive or a negative quantity) takes a product's stored quantity from 0
\* or more to below 0.
NoOperationGoesNegative ==
  [][\A p \in Products : quantity[p] >= 0 => quantity'[p] >= 0]_vars

\* ----------------------------------------------------------------- scope
\* one browser session, signed out, used by one user after another; any of
\* the location-scoped providers is the observed one
InitScope ==
  /\ quantity = [p \in Products |-> 1]
  /\ initialQuantity = quantity
  /\ products = [s \in Sessions |-> Reload(quantity)]
  /\ items = [s \in Sessions |-> EmptyCart]
  /\ pending = [s \in Sessions |-> {}]
  /\ watch = FALSE
  /\ NoReports
  /\ backlog = MaxFetch
  /\ listening = FALSE
  /\ trip = [s \in Sessions |-> Idle]
  /\ users = [u \in UserIds |-> Profile(u)]
  /\ locs = Locations
  /\ locationActive = [l \in Locations |-> TRUE]
  /\ counter = NoCounter
  /\ coll \in Collections
  /\ docs = {}
  /\ currentUser = [s \in Sessions |-> NoUser]
  /\ firebaseUser = [s \in Sessions |-> currentUser[s].uid]
  /\ authTask = [s \in Sessions |-> {}]
  /\ currentLocation = [s \in Sessions |-> Null]
  /\ locations = [s \in Sessions |-> {}]
  /\ locTask = [s \in Sessions |-> {}]
  /\ list = [s \in Sessions |-> EmptyList]
  /\ fetch = [s \in Sessions |-> {}]

\* the users who take turns at the session: the superadmin, a manager with
\* no location and a salesperson with one
ScopeUsers == {"root", "mgr", "sal"}

\* the handlers are called while the observed collection has room
ScopeRoom == Cardinality(docs) < MaxScopeDocs

ScopeStep ==
  \E s \in {"s1"} :
    \/ \E u \in ScopeUsers : Login(s, u)
    \/ Logout(s)
    \/ LocationsLoaded(s)
    \/ \E l \in Locations : SelectLocation(s, l)
    \/ FetchDone(s)
    \/ \E p \in Products : coll = "sales" /\ ScopeRoom /\ AddItem(s, p)
    \/ AddItemDone(s)
    \/ ScopeRoom /\ Checkout(s)
    \/ GetCounter(s)
    \/ SetCounter(s)
    \/ AddSaleDoc(s)
    \/ ClearCart(s)
    \/ \E ref \in Orders, its \in Selections :
         ScopeRoom /\ AddReturn(s, OrderType[ref], ref, its)
    \/ ReturnWritten(s)
    \/ ReturnAdded(s)
    \/ \E n \in 1..MaxQty : ScopeRoom /\ AddPurchase(s, "p1", n)
    \/ \E n \in Amounts : ScopeRoom /\ AddStockUpdate(s, "p1", n)
    \/ LedgerWritten(s)
    \/ RecordAdded(s)
    \/ ScopeRoom /\ AddVendor(s)
    \/ ScopeRoom /\ AddCategory(s)
    \/ Refreshed(s)

SpecScope == InitScope /\ [][ScopeStep]_vars

AddOps ==
  {"addSale", "addReturn", "addPurchase", "addStockUpdate", "addVendor",
   "addCategory"}

\* a non-superadmin without an assigned location
Unassigned(u) == u.role \in Restricted /\ u.locationId = Null

\* a non-superadmin with an assigned location
Assigned(u) == u.role \in Restricted /\ u.locationId # Null

\* C5: when the user calling addSale, addReturn, addPurchase, addStockUpdate,
\* addVendor or addCategory is a non-superadmin with no assigned locationId,
\* no step of the call persists a record or changes a product quantity.
UnassignedWritesNothing ==
  [][\A s \in Sessions : \A t \in pending[s] :
       (t.op \in AddOps /\ Unassigned(t.user) /\ t \notin pending'[s])
         => (docs' = docs /\ quantity' = quantity)]_vars

\* C6: every query a refresh issues for an admin, manager or salesperson
\* with assigned location L is filtered by locationId == L, also when another
\* user used the session before.
QueriesScopedToUser ==
  \A s \in Sessions :
    /\ \A f \in fetch[s] : Assigned(f.user) => f.filter = f.user.locationId
    /\ \A t \in pending[s] :
         (t.pc = "refresh" /\ Assigned(t.user)) => t.filter = t.user.locationId

\* C7: the list a refresh produced for a non-superadmin with no assigned
\* locationId is empty, whatever documents the store holds.
UnassignedSeesNothing ==
  \A s \in Sessions : Unassigned(list[s].user) => list[s].docs = {}

\* --------------------------------------------------------------- session
\* one till whose user clicks again while a handler still awaits the store
InitSession ==
  /\ quantity = [p \in Products |-> 1]
  /\ initialQuantity = quantity
  /\ products = [s \in Sessions |-> Reload(quantity)]
  /\ items = [s \in Sessions |-> EmptyCart]
  /\ currentLocation = [s \in Sessions |-> IF s = "s1" THEN "L1" ELSE "L2"]
  /\ pending = [s \in Sessions |-> {}]
  /\ watch = FALSE
  /\ trip = [s \in Sessions |-> Idle]
  /\ overlap = MaxInFlight + 1
  /\ backlog = MaxFetch
  /\ listening = FALSE
  /\ report = [s \in Sessions |-> Off]
  /\ TwoSessions("sales")

\* the user works on one product
SessionStep ==
  \E s \in {"s1"} :
    \/ AddItem(s, "p1")
    \/ AddItemDone(s)
    \/ RemoveItem(s, "p1")
    \/ RemoveItemDone(s)
    \/ \E n \in 0..MaxQty : UpdateQuantity(s, "p1", n)
    \/ UpdateQuantityDone(s)
    \/ Checkout(s)
    \/ GetCounter(s)
    \/ SetCounter(s)
    \/ AddSaleDoc(s)
    \/ Refreshed(s)
    \/ ClearCart(s)

SpecSession == InitSession /\ [][SessionStep]_vars

\* C11: within one session the steps of two user actions never interleave:
\* while an addItem, removeItem, updateQuantity or checkout of the session
\* has read the product list or the cart and not yet completed its writes,
\* no other action of the session is under way.
HandlersSerialized ==
  \A s \in Sessions : Cardinality(pending[s]) <= 1

\* ------------------------------------------------------------ dashboards
\* the dashboards read the in-memory lists of the sales and of the returns
\* providers; here the observed list holds the records of both
Today == "today"
Days == {Today, "earlier"}

\* the sales and the returns the store may hold when a dashboard is shown
DashSales ==
  {[id |-> o, invoice |-> IF o = "o1" THEN 1 ELSE 2, createdBy |-> u,
    createdAt |-> day, total |-> IF o = "o1" THEN 105 ELSE 210,
    locationId |-> "L2"] : o \in {"o1", "o3"}, u \in {"sal", "mgr"},
                          day \in Days}

DashReturns ==
  {[id |-> "r1", type |-> ty, referenceId |-> ref, createdAt |-> day,
    total |-> 21, locationId |-> "L2"] : ty \in {"sale", "purchase"},
                                       ref \in Orders, day \in Days}

SalesOf(D) == {d \in D : "invoice" \in DOMAIN d}
ReturnsOf(D) == {d \in D : "referenceId" \in DOMAIN d}

\* list.reduce((sum, x) => sum + x.total, 0)
SumTotals(D) == SumOver([d \in D |-> d.total], D)

\* ManagerDashboard lines 21-25; canProcessReturns is the returns feature flag
ManagerTotalReturnsM(R, canProcessReturns) ==
  IF canProcessReturns THEN SumTotals(R) ELSE 0
ManagerTotalReturns(R, canProcessReturns) ==
  IF canProcessReturns THEN SumTotals({r \in R : r.type = "sale"}) ELSE 0

ManagerNetSales(S, R, canProcessReturns) ==
  SumTotals(S) - ManagerTotalReturns(R, canProcessReturns)

\* SuperAdminDashboard lines 32-36
SuperAdminTotalReturns(R, canProcessReturns) ==
  IF canProcessReturns THEN SumTotals({r \in R : r.type = "sale"}) ELSE 0

SuperAdminNetSales(S, R, canProcessReturns) ==
  SumTotals(S) - SuperAdminTotalReturns(R, canProcessReturns)

\* SalespersonDashboard lines 31-69
TodaysSales(S, u) == {d \in S : d.createdBy = u.uid /\ d.createdAt = Today}

TodaysReturns(S, R, u, canProcessReturns) ==
  IF ~canProcessReturns THEN {}
  ELSE LET userSaleIds == {d.id : d \in {x \in S : x.createdBy = u.uid}}
       IN {r \in R : /\ r.createdAt = Today
                     /\ r.type = "sale"
                     /\ r.referenceId \in userSaleIds}

SalespersonNetSales(S, R, u, canProcessReturns) ==
  SumTotals(TodaysSales(S, u))
    - (IF canProcessReturns
       THEN SumTotals(TodaysReturns(S, R, u, canProcessReturns)) ELSE 0)

InitDash ==
  /\ quantity = [p \in Products |-> 1]
  /\ initialQuantity = quantity
  /\ products = [s \in Sessions |-> Reload(quantity)]
  /\ items = [s \in Sessions |-> EmptyCart]
  /\ pending = [s \in Sessions |-> {}]
  /\ watch = FALSE
  /\ trip = [s \in Sessions |-> Idle]
  /\ NoReports
  /\ backlog = MaxFetch
  /\ listening = FALSE
  /\ users = [u \in UserIds |-> Profile(u)]
  /\ locs = Locations
  /\ locationActive = [l \in Locations |-> TRUE]
  /\ counter = NoCounter
  /\ coll = "sales and returns"
  /\ \E S \in SUBSET DashSales, R \in SUBSET DashReturns :
       /\ \A a, b \in S : a.id = b.id => a = b
       /\ Cardinality(R) <= 1
       /\ docs = S \cup R
  /\ currentUser = [s \in Sessions |-> NoUser]
  /\ firebaseUser = [s \in Sessions |-> currentUser[s].uid]
  /\ authTask = [s \in Sessions |-> {}]
  /\ currentLocation = [s \in Sessions |-> Null]
  /\ locations = [s \in Sessions |-> {}]
  /\ locTask = [s \in Sessions |-> {}]
  /\ list = [s \in Sessions |-> EmptyList]
  /\ fetch = [s \in Sessions |-> {}]

DashStep ==
  \E s \in {"s1"} :
    \/ \E u \in ScopeUsers : Login(s, u)
    \/ Logout(s)
    \/ LocationsLoaded(s)
    \/ FetchDone(s)

SpecDash == InitDash /\ [][DashStep]_vars

\* the net sales of the specification: all sales less all returns of sales
NetSales(S, R) == SumTotals(S) - SumTotals({r \in R : r.type = "sale"})

InitFailure(c) ==
  /\ quantity \in [Products -> 0..MaxQty]
  /\ initialQuantity = quantity
  /\ products = [s \in Sessions |-> Reload(quantity)]
  /\ items = [s \in Sessions |-> EmptyCart]
  /\ currentLocation \in CartLocations
  /\ pending = [s \in Sessions |-> {}]
  /\ watch = FALSE
  /\ overlap = MaxInFlight
  /\ backlog = MaxFetch
  /\ listening = FALSE
  /\ report = [s \in Sessions |-> NoFailure]
  /\ trip = [s \in Sessions |-> Idle]
  /\ TwoSessions(c)

\* one session processes returns
InitReturnFailure == InitFailure("returns")

ReturnFailureStep ==
  \E s \in {"s1"} :
    \/ \E ref \in Orders, its \in Selections :
         AddReturn(s, OrderType[ref], ref, its)
    \/ ReturnWritten(s)
    \/ ReturnAdded(s)
    \/ Refreshed(s)

SpecReturnFailure == InitReturnFailure /\ [][ReturnFailureStep]_vars

\* addReturn t of session s fails at the await it is suspended on: the
\* ledger write of item t.k or the insert of the Return
ReturnFails(s, t) ==
  /\ t \in pending[s]
  /\ t.op = "addReturn"
  /\ t.pc \in {"updateProduct", "addDoc"}
  /\ pending'[s] = pending[s] \ {t}

\* C14: when addReturn fails at the ledger write of item k, or at the insert
\* of the Return after all ledger writes, the ledger writes of the earlier
\* items stay applied (nothing is rolled back), no Return is persisted and
\* the error is rethrown to the caller.
FailedReturnKeepsWrites ==
  [][\A s \in Sessions : \A t \in pending[s] :
       ReturnFails(s, t) =>
         /\ quantity' = quantity
         /\ docs' = docs
         /\ report'[s] = "thrown"]_vars

\* a return has failed after a ledger write: the stored quantity differs from
\* the initial one, no Return is stored and the failure was thrown
FailedReturnKeepsWritesWitness ==
  /\ report["s1"] = "thrown"
  /\ pending["s1"] = {}
  /\ docs = {}
  /\ quantity["p1"] # initialQuantity["p1"]

\* the insert of the Return of addReturn t resolves: addReturn has succeeded
ReturnSucceeds(s, t) ==
  /\ t \in pending[s]
  /\ t.op = "addReturn"
  /\ t.pc = "addDoc"
  /\ \E u \in pending'[s] : u.slot = t.slot /\ u.pc = "refresh"

\* the signed sum of the returned quantities of product p in data.items
ReturnedSum(t, p) ==
  LET K == {k \in 1..Len(t.items) : ItemProduct[t.items[k]] = p}
  IN SumOver([k \in K |-> QuantityChange(t.type, ItemQuantity[t.items[k]])],
             K)

\* C19: after an addReturn that succeeds, with no other writer in between,
\* the stored quantity of each product is its quantity before the call plus
\* (sale return) or minus (purchase return) the sum of the returned
\* quantities of that product, several items of one product included.
ReturnAppliesEveryItem ==
  [][\A s \in Sessions : \A t \in pending[s] :
       ReturnSucceeds(s, t) =>
         \A p \in Products :
           quantity'[p] = t.products[p] + ReturnedSum(t, p)]_vars

\* C22: addReturn checks every requested item against the in-memory returns
\* before any write: when an item id of the request appears in a cached
\* Return with the same referenceId, addReturn fails, writes no product
\* quantity and persists no Return.
DuplicateReturnRefused ==
  [][\A s \in Sessions, ref \in Orders, its \in Selections :
       (/\ \E k \in 1..Len(its) : \E d \in list[s].docs :
              /\ d.referenceId = ref
              /\ \E j \in 1..Len(d.items) : d.items[j] = its[k]
        /\ AddReturn(s, OrderType[ref], ref, its))
       => /\ quantity' = quantity
          /\ docs' = docs
          /\ pending' = pending
          /\ report'[s] = "thrown"]_vars

\* every item of every order is returned and cached, no addReturn is under
\* way, and the last addReturn of the session was refused
DuplicateReturnRefusedWitness ==
  /\ \A ref \in Orders, i \in ReturnItems :
       IsItemReturned(list["s1"].docs, ref, i)
  /\ list["s1"].docs = docs
  /\ pending["s1"] = {}
  /\ report["s1"] = "thrown"

\* ------------------------------------------------------ failing writes
\* one session uses every domain operation that writes to the store
InitDomain ==
  \E c \in {"sales", "returns", "purchases", "stockUpdates"} : InitFailure(c)

DomainStep ==
  \E s \in {"s1"} :
    \/ AddItem(s, "p1")
    \/ AddItemDone(s)
    \/ RemoveItem(s, "p1")
    \/ RemoveItemDone(s)
    \/ \E n \in 0..MaxQty : UpdateQuantity(s, "p1", n)
    \/ UpdateQuantityDone(s)
    \/ Checkout(s)
    \/ GetCounter(s)
    \/ SetCounter(s)
    \/ AddSaleDoc(s)
    \/ ClearCart(s)
    \/ \E ref \in Orders, its \in Selections :
         AddReturn(s, OrderType[ref], ref, its)
    \/ ReturnWritten(s)
    \/ ReturnAdded(s)
    \/ \E n \in 1..MaxQty : AddPurchase(s, "p1", n)
    \/ \E n \in Amounts : AddStockUpdate(s, "p1", n)
    \/ LedgerWritten(s)
    \/ RecordAdded(s)
    \/ Refreshed(s)

SpecDomain == InitDomain /\ [][DomainStep]_vars

SoloStep ==
  \E s \in {"s1"} :
    \/ \E p \in Products : AddItem(s, p)
    \/ AddItemDone(s)
    \/ \E p \in Products : RemoveItem(s, p)
    \/ RemoveItemDone(s)
    \/ \E p \in Products, n \in 0..MaxQty : UpdateQuantity(s, p, n)
    \/ UpdateQuantityDone(s)
    \/ RefreshProducts(s)

\* the products are still to be loaded; one handler at a time
InitSolo ==
  /\ quantity \in [Products -> 0..MaxQty]
  /\ initialQuantity = quantity
  /\ products = [s \in Sessions |-> [p \in Products |-> NoProduct]]
  /\ items = [s \in Sessions |-> EmptyCart]
  /\ currentLocation \in CartLocations
  /\ pending = [s \in Sessions |-> {}]
  /\ watch = FALSE
  /\ overlap = 1
  /\ backlog = MaxFetch
  /\ listening = FALSE
  /\ report = [s \in Sessions |-> Off]
  /\ trip = [s \in Sessions |-> Idle]
  /\ TwoSessions("sales")

SpecSolo == InitSolo /\ [][SoloStep]_vars

\* C23: in a single session whose cart operations each run to completion
\* before the next starts, with no other writer and no checkout, for each
\* product the stored quantity plus the quantity of its cart item (0 if
\* absent) equals the initial stored quantity.
ReservedPlusStoredIsInitial ==
  \A p \in Products : quantity[p] + items["s1"][p] = initialQuantity[p]

\* the whole stock of a product of several units is in the cart
ReservedPlusStoredIsInitialWitness ==
  \E p \in Products :
    /\ initialQuantity[p] > 1
    /\ items["s1"][p] = initialQuantity[p]
    /\ quantity[p] = 0
    /\ pending["s1"] = {}

\* C24: updateQuantity(id, n) on a cart item of quantity old whose product
\* has quantity q: when n < 1, or n - old > 0 and q < n - old, neither the
\* cart nor the stored quantity changes; otherwise, once its write has
\* resolved, the stored quantity is q - (n - old), the cart item's quantity
\* is n and the other cart items are unchanged.
UpdateQuantityApplied ==
  [][\A s \in Sessions, p \in Products :
       /\ \A n \in 0..MaxQty :
            (/\ items[s][p] > 0
             /\ n < 1 \/ (n - items[s][p] > 0 /\ quantity[p] < n - items[s][p])
             /\ UpdateQuantity(s, p, n))
            => UNCHANGED <<quantity, items, pending>>
       /\ \A t \in pending[s] :
            (/\ t.op = "updateQuantity" /\ t.productId = p
             /\ t \notin pending'[s]
             /\ <<quantity, items>>' # <<quantity, items>>)
            => /\ quantity' = [quantity EXCEPT
                                 ![p] = @ - (t.n - items[s][p])]
               /\ items' = [items EXCEPT ![s][p] = t.n]]_vars

\* an accepted updateQuantity is raising a cart item and takes the last
\* units of its product from the store
UpdateQuantityAppliedWitness ==
  \E t \in pending["s1"] :
    /\ t.op = "updateQuantity"
    /\ t.n > items["s1"][t.productId]
    /\ t.quantity = quantity[t.productId] - (t.n - items["s1"][t.productId])
    /\ t.quantity = 0

\* ------------------------------------------------------ failing addItem
\* two tills add items while the store may reject the ledger write
InitAddFailure == InitFailure("sales")

SpecAddFailure == InitAddFailure /\ [][AddStep]_vars

\* C25: an addItem that does not succeed leaves the cart and the stored
\* quantity unchanged: for a product that is unknown or has quantity <= 0,
\* for a product of another location than the active one, and for a ledger
\* write that fails; the cart item is added or incremented only in the step
\* in which the ledger write has resolved.
FailedAddItemChangesNothing ==
  [][\A s \in Sessions, p \in Products :
       /\ (/\ \/ products[s][p] = NoProduct
               \/ products[s][p] <= 0
               \/ /\ currentLocation[s] # Null
                  /\ ProductLocation[p] # Null
                  /\ ProductLocation[p] # currentLocation[s]
            /\ AddItem(s, p))
           => UNCHANGED <<quantity, items, pending>>
       /\ (report[s] # "logged" /\ report'[s] = "logged")
           => UNCHANGED <<quantity, items>>
       /\ items'[s][p] # items[s][p]
           => \E t \in pending[s] :
                /\ t.op = "addItem" /\ t.productId = p
                /\ t \notin pending'[s]
                /\ quantity'[p] = t.quantity
                /\ items'[s][p] = items[s][p] + 1]_vars

\* an addItem of the first till has failed at its ledger write, the second
\* till sees the first location's product in stock and cannot take it:
\* nothing is reserved
FailedAddItemChangesNothingWitness ==
  /\ report["s1"] = "logged"
  /\ report["s2"] = NoFailure
  /\ products["s2"]["p1"] > 0
  /\ \A s \in Sessions : items[s] = EmptyCart /\ pending[s] = {}
  /\ quantity = initialQuantity

\* ------------------------------------------------------------ franchise
\* createFranchise up to its await on getDocs(query(franchises, limit(1)))
CreateFranchise(s) ==
  /\ coll = "franchises"
  /\ CanStart(s)
  /\ Begin(s, Closure(s, "createFranchise", "getDocs", Null))

\* the check's answer arrives: a franchise exists and the handler throws, or
\* none does and the handler goes on to its await on addDoc
FranchiseChecked(s) ==
  \E t \in pending[s] :
    /\ t.op = "createFranchise" /\ t.pc = "getDocs"
    /\ \/ /\ docs = {}
          /\ pending' = Replace(s, t, [t EXCEPT !.pc = "addDoc"])
          /\ UNCHANGED <<quantity, counter, authVars, locVars, collVars,
                         cartVars, obsVars>>
       \/ docs # {} /\ Throw(s, t)
       \/ Throw(s, t)

\* await addDoc(collection(db, 'franchises'), franchiseData)
FranchiseAdded(s) ==
  \E t \in pending[s] :
    /\ t.op = "createFranchise" /\ t.pc = "addDoc"
    /\ \/ Insert(s, t, [id |-> NewId(docs), locationId |-> Null])
       \/ Throw(s, t)

\* the newest franchise: orderBy('createdAt', 'desc'), limit(1)
Newest(D) == {d \in D : \A e \in D : e.id <= d.id}

\* await refreshFranchise(): it sets the franchise or catches its error
FranchiseRefreshed(s) ==
  \E t \in pending[s] :
    /\ t.op = "createFranchise" /\ t.pc = "refresh"
    /\ \/ list' = [list EXCEPT ![s] = [docs |-> Newest(docs),
                                       filter |-> All, user |-> t.user]]
       \/ UNCHANGED list
    /\ pending' = [pending EXCEPT ![s] = @ \ {t}]
    /\ UNCHANGED <<quantity, counter, authVars, locVars, coll, docs, fetch,
                   cartVars, obsVars>>

InitFranchise == InitFailure("franchises")

FranchiseStep ==
  \E s \in Sessions :
    \/ CreateFranchise(s)
    \/ FranchiseChecked(s)
    \/ FranchiseAdded(s)
    \/ FranchiseRefreshed(s)

SpecFranchise == InitFranchise /\ [][FranchiseStep]_vars

\* C20: whatever the sessions and the interleaving of their createFranchise
\* calls, the franchises collection holds at most one document.
AtMostOneFranchise == Cardinality(docs) <= 1

\* addSale t of session s fails after its invoice number was drawn: at the
\* location check or at the insert of the Sale
SaleFails(s, t) ==
  /\ t \in pending[s]
  /\ t.op = "addSale"
  /\ t.pc = "addDoc"
  /\ \A u \in pending'[s] : u.slot # t.slot

\* C26: when addSale fails (no location can be resolved for a
\* non-superadmin, or the insert of the Sale fails), no Sale is persisted,
\* the invoice counter document has the value it had before the call (the
\* next invoice number is again the one this call drew), the cart keeps its
\* items and no product quantity changes.
FailedSaleLeavesState ==
  [][\A s \in Sessions : \A t \in pending[s] :
       SaleFails(s, t) =>
         /\ docs' = docs
         /\ NextCount(counter') = t.count
         /\ items' = items
         /\ quantity' = quantity]_vars

\* ------------------------------------------------------ overlapping refreshes
\* one sale per location is stored
StoredSales == {[id |-> NameRank[l], locationId |-> l] : l \in Locations}

\* a till where the user and the selected location change while refreshSales
\* calls are still awaiting the store
InitRefresh ==
  /\ quantity = [p \in Products |-> 1]
  /\ initialQuantity = quantity
  /\ products = [s \in Sessions |-> Reload(quantity)]
  /\ items = [s \in Sessions |-> EmptyCart]
  /\ pending = [s \in Sessions |-> {}]
  /\ watch = FALSE
  /\ NoReports
  /\ backlog = MaxFetch + 1
  /\ listening = FALSE
  /\ trip = [s \in Sessions |-> Idle]
  /\ users = [u \in UserIds |-> Profile(u)]
  /\ locs = Locations
  /\ locationActive = [l \in Locations |-> TRUE]
  /\ counter = NoCounter
  /\ coll = "sales"
  /\ docs = StoredSales
  /\ currentUser = [s \in Sessions |-> NoUser]
  /\ firebaseUser = [s \in Sessions |-> currentUser[s].uid]
  /\ authTask = [s \in Sessions |-> {}]
  /\ currentLocation = [s \in Sessions |-> Null]
  /\ locations = [s \in Sessions |-> {}]
  /\ locTask = [s \in Sessions |-> {}]
  /\ list = [s \in Sessions |-> EmptyList]
  /\ fetch = [s \in Sessions |-> {}]

RefreshStep ==
  \E s \in {"s1"} :
    \/ \E u \in ScopeUsers : Login(s, u)
    \/ Logout(s)
    \/ LocationsLoaded(s)
    \/ \E l \in Locations : SelectLocation(s, l)
    \/ FetchDone(s)

SpecRefresh == InitRefresh /\ [][RefreshStep]_vars

\* C27: a response to a refreshSales fetch issued for an earlier scope never
\* overwrites the list produced for a later scope: once the in-memory sales
\* list is the result of the query for the scope in force, it stays so for
\* as long as the active user and the selected location do not change.
StaleFetchNeverOverwrites ==
  [][\A s \in Sessions :
       (/\ list[s].docs =
              RunQuery(docs, ScopedQuery(currentLocation[s], currentUser[s]))
        /\ currentUser'[s] = currentUser[s]
        /\ currentLocation'[s] = currentLocation[s])
       => list'[s].docs =
            RunQuery(docs', ScopedQuery(currentLocation'[s], currentUser'[s]))
    ]_vars

\* ------------------------------------------------------ user management
Roles == {"superadmin", "admin", "manager", "salesperson"}

\* there is no document users/<uid>
NoDoc == [role |-> "none", locationId |-> Null, isActive |-> FALSE]

Exists(u) == users[u] # NoDoc

\* the single franchise of the installation
Franchise == "f1"

\* the account the pages act on
Managed == {"sal"}

\* a write to users/<u> resolves, or it rejects and the page sets its error
WriteUser(s, u, doc) ==
  /\ \/ /\ users' = [users EXCEPT ![u] = doc]
        /\ UNCHANGED report
     \/ /\ report' = Report(s, "error")
        /\ UNCHANGED users
  /\ UNCHANGED <<quantity, counter, pending, currentUser, firebaseUser,
                 authTask, locVars, collVars, cartVars, fixedVars>>

\* setError(...) and nothing else
SetError(s, v) ==
  /\ report' = Report(s, v)
  /\ UNCHANGED <<quantity, counter, pending, authVars, locVars, collVars,
                 cartVars, fixedVars>>

\* register: userData as written by setDoc
UserData(role, locationId) ==
  IF role = "superadmin"
  THEN [role |-> role, isActive |-> TRUE, franchiseId |-> Null,
        locationId |-> Null]
  ELSE [role |-> role, isActive |-> TRUE, franchiseId |-> Franchise,
        locationId |-> locationId]

\* register(email, password, role, franchiseId, locationId) for an email that
\* has no account yet
Register(s, u, role, locationId) ==
  /\ ~Exists(u)
  /\ IF role = "salesperson" /\ locationId = Null
     THEN /\ report' = Report(s, "thrown")
          /\ UNCHANGED <<quantity, counter, pending, authVars, locVars,
                         collVars, cartVars, fixedVars>>
     ELSE /\ users' = [users EXCEPT ![u] = UserData(role, locationId)]
          /\ firebaseUser' = [firebaseUser EXCEPT ![s] = u]
          /\ authTask' = Notify(s, u)
          /\ IF role = "superadmin"
             THEN Signed(s, [uid |-> u, role |-> role, locationId |-> Null,
                             isActive |-> TRUE])
             ELSE UNCHANGED <<quantity, counter, pending, currentUser,
                              locVars, collVars, cartVars, obsVars>>

\* ---- superadmin/UsersPage
OnSuperAdminPage(s) == currentUser[s].role = "superadmin"

SuperUpdateUserRole(s, u, newRole) ==
  /\ OnSuperAdminPage(s) /\ Exists(u)
  /\ WriteUser(s, u, [users[u] EXCEPT !.role = newRole])

SuperUpdateUserLocation(s, u, locationId) ==
  /\ OnSuperAdminPage(s) /\ Exists(u)
  /\ users[u].role # "superadmin"
  /\ WriteUser(s, u, [users[u] EXCEPT !.locationId = locationId])

SuperToggleUserStatus(s, u) ==
  /\ OnSuperAdminPage(s) /\ Exists(u)
  /\ WriteUser(s, u, [users[u] EXCEPT !.isActive = ~@])

\* deleteUser: deleteDoc(doc(db, 'users', uid))
DeleteUser(s, u) ==
  /\ OnSuperAdminPage(s) /\ Exists(u)
  /\ WriteUser(s, u, NoDoc)

\* ---- admin/UsersPage: the managers and salespersons of the admin's location
AdminList(s) ==
  {u \in Managed :
     /\ Exists(u)
     /\ users[u].franchiseId = Franchise
     /\ users[u].locationId = currentUser[s].locationId
     /\ users[u].role \in {"manager", "salesperson"}}

OnAdminPage(s) ==
  currentUser[s].role = "admin" /\ currentUser[s].locationId # Null

AdminRejectsM(newRole) == newRole = "superadmin"
AdminRejects(newRole) == newRole = "superadmin" \/ newRole = "admin"

AdminUpdateUserRole(s, u, newRole) ==
  /\ OnAdminPage(s) /\ u \in AdminList(s)
  /\ IF AdminRejects(newRole)
     THEN SetError(s, "permission")
     ELSE WriteUser(s, u, [users[u] EXCEPT !.role = newRole])

AdminToggleUserStatus(s, u) ==
  /\ OnAdminPage(s) /\ u \in AdminList(s)
  /\ WriteUser(s, u, [users[u] EXCEPT !.isActive = ~@])

\* ---- franchise/UsersPage: the users of the franchise
FranchiseList == {u \in Managed : Exists(u) /\ users[u].franchiseId = Franchise}

HandleDeleteUser(s, u) ==
  /\ currentUser[s] # NoUser /\ u \in FranchiseList
  /\ WriteUser(s, u, [users[u] EXCEPT !.isActive = FALSE])

FranchiseToggleUserStatus(s, u) ==
  /\ currentUser[s] # NoUser /\ u \in FranchiseList
  /\ WriteUser(s, u, [users[u] EXCEPT !.isActive = ~@])

\* handleFormSubmit with editingUser = u
HandleFormSubmit(s, u, role, locationId, isActive) ==
  /\ currentUser[s] # NoUser /\ u \in FranchiseList
  /\ WriteUser(s, u, [users[u] EXCEPT !.role = role,
                                      !.locationId = locationId,
                                      !.isActive = isActive])

\* the superadmin and the admin of L1 are signed in, the franchise page is
\* open in the first session; the other accounts are still to be registered
InitUsers ==
  /\ quantity = [p \in Products |-> 0]
  /\ initialQuantity = quantity
  /\ products = [s \in Sessions |-> Reload(quantity)]
  /\ items = [s \in Sessions |-> EmptyCart]
  /\ currentLocation = [s \in Sessions |-> "L1"]
  /\ pending = [s \in Sessions |-> {}]
  /\ watch = FALSE
  /\ overlap = MaxInFlight
  /\ backlog = MaxFetch
  /\ listening = FALSE
  /\ report = [s \in Sessions |-> NoFailure]
  /\ trip = [s \in Sessions |-> Idle]
  /\ users = [u \in UserIds |->
               IF u = "root" THEN UserData("superadmin", Null)
               ELSE IF u = "adm" THEN UserData("admin", "L1")
               ELSE NoDoc]
  /\ locs = Locations
  /\ locationActive = [l \in Locations |-> TRUE]
  /\ counter = NoCounter
  /\ coll = "sales"
  /\ docs = {}
  /\ currentUser = [s \in Sessions |->
                      IF s = "s1" THEN UserOf("root") ELSE UserOf("adm")]
  /\ firebaseUser = [s \in Sessions |-> currentUser[s].uid]
  /\ authTask = [s \in Sessions |-> {}]
  /\ locations = [s \in Sessions |-> LocationsFor(currentUser[s])]
  /\ locTask = [s \in Sessions |-> {}]
  /\ list = [s \in Sessions |-> EmptyList]
  /\ fetch = [s \in Sessions |-> {}]

UsersStep ==
  \E s \in Sessions :
    \/ \E u \in Managed, r \in Roles, l \in Locations \cup {Null} :
         Register(s, u, r, l)
    \/ \E u \in Managed, r \in Roles : SuperUpdateUserRole(s, u, r)
    \/ \E u \in Managed, l \in Locations \cup {Null} :
         SuperUpdateUserLocation(s, u, l)
    \/ \E u \in Managed : SuperToggleUserStatus(s, u)
    \/ \E u \in Managed : DeleteUser(s, u)
    \/ \E u \in Managed, r \in Roles : AdminUpdateUserRole(s, u, r)
    \/ \E u \in Managed : AdminToggleUserStatus(s, u)
    \/ s = "s1" /\ \E u \in Managed : HandleDeleteUser(s, u)
    \/ s = "s1" /\ \E u \in Managed : FranchiseToggleUserStatus(s, u)
    \/ s = "s1" /\ \E u \in Managed, r \in Roles,
                      l \in Locations \cup {Null}, a \in BOOLEAN :
                   HandleFormSubmit(s, u, r, l, a)

SpecUsers == InitUsers /\ [][UsersStep]_vars

\* C15: in every state of the users collection every user with role
\* superadmin has no locationId, and every active user with role admin,
\* manager or salesperson has a locationId.
LocationMatchesRole ==
  \A u \in UserIds :
    Exists(u) =>
      /\ users[u].role = "superadmin" => users[u].locationId = Null
      /\ (users[u].isActive /\ users[u].role \in Restricted)
           => users[u].locationId # Null

\* C16: no operation removes a user document: a user document that exists
\* exists in every later state.
UsersNeverRemoved == [][\A u \in UserIds : Exists(u) => Exists(u)']_vars

\* C17: an admin's updateUserRole with newRole superadmin or admin writes
\* nothing to the users collection, leaves every role unchanged and sets the
\* permission error.
AdminCannotElevate ==
  [][\A s \in Sessions, u \in Managed, r \in {"superadmin", "admin"} :
       AdminUpdateUserRole(s, u, r) =>
         /\ users' = users
         /\ report'[s] = "permission"]_vars

\* the admin was refused while a manager or salesperson of its location is
\* on its list
AdminCannotElevateWitness ==
  /\ report["s2"] = "permission"
  /\ currentUser["s2"].role = "admin"
  /\ AdminList("s2") # {}

\* ------------------------------------------------ login and auth listener
\* the accounts that sign in
AuthUsers == {"root", "sal"}

\* getUserWithRole: the profile, or null when there is no document
GetUserWithRole(uid) == IF Exists(uid) THEN UserOf(uid) ELSE NoUser

\* role === 'superadmin' || isActive
AdmitsM(u) == TRUE
Admits(u) == u.role = "superadmin" \/ u.isActive

\* login: the salesperson chose another location than its own
OtherLocation(u, locationId) ==
  /\ u.role = "salesperson"
  /\ u.locationId # Null /\ locationId # Null /\ u.locationId # locationId

\* setCurrentUser(u); setting null over null changes no state
SetCurrentUser(s, u) ==
  IF u = NoUser /\ currentUser[s] = NoUser
  THEN UNCHANGED <<quantity, counter, pending, currentUser, locVars, collVars,
                   cartVars, obsVars>>
  ELSE Signed(s, u)

\* login's catch block: setError(errorMessage); throw new Error(errorMessage)
LoginRejected(s, tasks) ==
  /\ authTask' = [authTask EXCEPT ![s] = tasks]
  /\ report' = Report(s, "thrown")
  /\ UNCHANGED <<quantity, counter, pending, users, currentUser, locVars,
                 collVars, cartVars, fixedVars>>

\* login(email, password, locationId) from the login page; valid is whether
\* an email and a password were entered
LoginStart(s, uid, locationId, valid) ==
  /\ currentUser[s] = NoUser
  /\ \A t \in authTask[s] : t.op # "login"
  /\ UNCHANGED firebaseUser
  /\ IF valid
     THEN /\ authTask' = [authTask EXCEPT
                            ![s] = @ \cup {[op |-> "login", pc |-> "signIn",
                                            uid |-> uid, loc |-> locationId]}]
          /\ report' = Report(s, NoFailure)
          /\ UNCHANGED <<quantity, counter, pending, users, currentUser,
                         locVars, collVars, cartVars, fixedVars>>
     ELSE LoginRejected(s, authTask[s])

\* await signInWithEmailAndPassword: the credentials are refused, or the
\* account is signed in at Firebase
LoginSignedIn(s) ==
  \E t \in authTask[s] :
    /\ t.op = "login" /\ t.pc = "signIn"
    /\ \/ /\ LoginRejected(s, authTask[s] \ {t})
          /\ UNCHANGED firebaseUser
       \/ /\ Exists(t.uid)
          /\ firebaseUser' = [firebaseUser EXCEPT ![s] = t.uid]
          /\ authTask' = [authTask EXCEPT
                            ![s] = (Notify(s, t.uid)[s] \ {t})
                                     \cup {[t EXCEPT !.pc = "read"]}]
          /\ UNCHANGED <<quantity, counter, pending, users, currentUser,
                         locVars, collVars, cartVars, obsVars>>

\* await getUserWithRole (null also when the read fails), the checks and
\* setCurrentUser; the lastLogin write that follows changes no field here
LoginProfileRead(s) ==
  \E t \in authTask[s] :
    /\ t.op = "login" /\ t.pc = "read"
    /\ UNCHANGED firebaseUser
    /\ \E user \in {GetUserWithRole(t.uid), NoUser} :
         IF user = NoUser \/ OtherLocation(user, t.loc)
         THEN LoginRejected(s, authTask[s] \ {t})
         ELSE IF ~Admits(user)
         THEN /\ authTask' = [authTask EXCEPT
                                ![s] = (@ \ {t})
                                         \cup {[t EXCEPT !.pc = "signOut"]}]
              /\ UNCHANGED <<quantity, counter, pending, users, currentUser,
                             locVars, collVars, cartVars, obsVars>>
         ELSE /\ Signed(s, user)
              /\ authTask' = [authTask EXCEPT ![s] = @ \ {t}]
              /\ UNCHANGED users

\* await signOut(auth) of the inactive account, then the throw
LoginSignedOut(s) ==
  \E t \in authTask[s] :
    /\ t.op = "login" /\ t.pc = "signOut"
    /\ firebaseUser' = [firebaseUser EXCEPT ![s] = "none"]
    /\ LoginRejected(s, Notify(s, "none")[s] \ {t})

\* the onAuthStateChanged callback: no account, or await getUserWithRole
\* and setCurrentUser (the message it sets for an inactive account is not
\* followed)
ListenerProfileRead(s) ==
  \E t \in authTask[s] :
    /\ t.op = "listener" /\ t.pc = "read"
    /\ UNCHANGED <<users, firebaseUser>>
    /\ \E user \in {IF t.uid = "none" THEN NoUser
                     ELSE GetUserWithRole(t.uid), NoUser} :
         IF user # NoUser /\ ~Admits(user)
         THEN /\ authTask' = [authTask EXCEPT
                                ![s] = (@ \ {t})
                                         \cup {[t EXCEPT !.pc = "signOut"]}]
              /\ UNCHANGED <<quantity, counter, pending, currentUser,
                             locVars, collVars, cartVars, obsVars>>
         ELSE /\ SetCurrentUser(s, user)
              /\ authTask' = [authTask EXCEPT ![s] = @ \ {t}]

\* the callback's await signOut(auth), then setCurrentUser(null)
ListenerSignedOut(s) ==
  \E t \in authTask[s] :
    /\ t.op = "listener" /\ t.pc = "signOut"
    /\ firebaseUser' = [firebaseUser EXCEPT ![s] = "none"]
    /\ authTask' = [authTask EXCEPT ![s] = Notify(s, "none")[s] \ {t}]
    /\ SetCurrentUser(s, NoUser)
    /\ UNCHANGED users

\* the accounts of the installation; the flags of the accounts that sign in
\* are as the administrators left them; s2 is the superadmin on its users page
InitLogin ==
  /\ quantity = [p \in Products |-> 0]
  /\ initialQuantity = quantity
  /\ products = [s \in Sessions |-> Reload(quantity)]
  /\ items = [s \in Sessions |-> EmptyCart]
  /\ pending = [s \in Sessions |-> {}]
  /\ watch = FALSE
  /\ overlap = MaxInFlight
  /\ backlog = MaxFetch
  /\ listening = TRUE
  /\ report = [s \in Sessions |-> NoFailure]
  /\ trip = [s \in Sessions |-> Idle]
  /\ \E active \in [AuthUsers -> BOOLEAN] :
       users = [u \in UserIds |->
                  IF u \in AuthUsers
                  THEN [Profile(u) EXCEPT !.isActive = active[u]]
                  ELSE Profile(u)]
  /\ locs = Locations
  /\ locationActive = [l \in Locations |-> TRUE]
  /\ counter = NoCounter
  /\ coll = "sales"
  /\ docs = {}
  /\ currentUser = [s \in Sessions |->
                      IF s = "s1" THEN NoUser ELSE UserOf("root")]
  /\ firebaseUser = [s \in Sessions |-> currentUser[s].uid]
  /\ authTask = [s \in Sessions |-> {}]
  /\ currentLocation = [s \in Sessions |-> Null]
  /\ locations = [s \in Sessions |-> LocationsFor(currentUser[s])]
  /\ locTask = [s \in Sessions |-> {}]
  /\ list = [s \in Sessions |-> EmptyList]
  /\ fetch = [s \in Sessions |-> {}]

LoginStep ==
  \/ \E s \in {"s1"} :
       \/ \E u \in AuthUsers, l \in Locations \cup {Null}, valid \in BOOLEAN :
            LoginStart(s, u, l, valid)
       \/ LoginSignedIn(s)
       \/ LoginProfileRead(s)
       \/ LoginSignedOut(s)
       \/ ListenerProfileRead(s)
       \/ ListenerSignedOut(s)
       \/ LocationsLoaded(s)
       \/ FetchDone(s)
  \/ \E u \in Managed : SuperToggleUserStatus("s2", u)

SpecLogin == InitLogin /\ [][LoginStep]_vars

\* C28: if login rejects for any reason, then once the auth-state listener
\* triggered by that attempt has finished, currentUser is null.
RejectedLoginLeavesNoUser ==
  \A s \in Sessions :
    (report[s] = "thrown" /\ authTask[s] = {}) => currentUser[s] = NoUser

InitRegister ==
  /\ quantity = [p \in Products |-> 0]
  /\ initialQuantity = quantity
  /\ products = [s \in Sessions |-> Reload(quantity)]
  /\ items = [s \in Sessions |-> EmptyCart]
  /\ pending = [s \in Sessions |-> {}]
  /\ watch = FALSE
  /\ overlap = MaxInFlight
  /\ backlog = MaxFetch
  /\ listening = TRUE
  /\ report = [s \in Sessions |-> NoFailure]
  /\ trip = [s \in Sessions |-> Idle]
  /\ users = [u \in UserIds |->
               IF u = "root" THEN UserData("superadmin", Null)
               ELSE IF u = "adm" THEN UserData("admin", "L1")
               ELSE IF u = "mgr" THEN UserData("manager", "L1")
               ELSE NoDoc]
  /\ locs = Locations
  /\ locationActive = [l \in Locations |-> TRUE]
  /\ counter = NoCounter
  /\ coll = "sales"
  /\ docs = {}
  /\ currentUser = [s \in Sessions |-> NoUser]
  /\ firebaseUser = [s \in Sessions |-> currentUser[s].uid]
  /\ authTask = [s \in Sessions |-> {}]
  /\ currentLocation = [s \in Sessions |-> Null]
  /\ locations = [s \in Sessions |-> {}]
  /\ locTask = [s \in Sessions |-> {}]
  /\ list = [s \in Sessions |-> EmptyList]
  /\ fetch = [s \in Sessions |-> {}]

RegisterStep ==
  \E s \in {"s1"} :
    \/ \E u \in Managed, r \in Roles, l \in Locations \cup {Null} :
         Register(s, u, r, l)
    \/ \E u \in Managed, l \in Locations \cup {Null}, valid \in BOOLEAN :
         LoginStart(s, u, l, valid)
    \/ LoginSignedIn(s)
    \/ LoginProfileRead(s)
    \/ ListenerProfileRead(s)
    \/ Logout(s)
    \/ LocationsLoaded(s)
    \/ FetchDone(s)

SpecRegister == InitRegister /\ [][RegisterStep]_vars

\* C21: a non-superadmin account created by register cannot become the
\* session's currentUser, through login or through the auth-state listener,
\* until an administrator has set its isActive flag to true: while no
\* administrator acts, currentUser is never such an account.
RegisteredNeedsActivation ==
  \A s \in Sessions :
    currentUser[s].uid \in Managed => currentUser[s].role = "superadmin"

\* --------------------------------------------------------- deleteLocation
\* getDocs(query(users, where('locationId', '==', id))): the users assigned
UsersSnapshot(id) == {u \in UserIds : Exists(u) /\ users[u].locationId = id}

\* deleteLocation(id) up to its await on the users query; a caller that is
\* not the superadmin is refused before anything else
DeleteLocation(s, id) ==
  IF currentUser[s].role # "superadmin"
  THEN Refuse(s, "deleteLocation")
  ELSE /\ CanStart(s)
       /\ Begin(s, Closure(s, "deleteLocation", "getDocs", id))

\* the answer of the users query: the handler throws when a user is assigned
\* (or the query failed), else it goes on to its await on updateDoc
LocationUsersChecked(s) ==
  \E t \in pending[s] :
    /\ t.op = "deleteLocation" /\ t.pc = "getDocs"
    /\ \/ /\ UsersSnapshot(t.locationId) = {}
          /\ pending' = Replace(s, t, [t EXCEPT !.pc = "updateDoc"])
          /\ UNCHANGED <<quantity, counter, authVars, locVars, collVars,
                         cartVars, obsVars>>
       \/ UsersSnapshot(t.locationId) # {} /\ Throw(s, t)
       \/ Throw(s, t)

\* await updateDoc(locationRef, {isActive: false, ...}), then the handler's
\* refreshLocations() with the user and location of its render
LocationDeactivated(s) ==
  \E t \in pending[s] :
    /\ t.op = "deleteLocation" /\ t.pc = "updateDoc"
    /\ \/ /\ Cardinality(locTask[s]) < backlog
          /\ locationActive' = [locationActive EXCEPT ![t.locationId] = FALSE]
          /\ locTask' = [locTask EXCEPT
                           ![s] = @ \cup {[user |-> t.user,
                                           loc |-> currentLocation[s]]}]
          /\ pending' = [pending EXCEPT ![s] = @ \ {t}]
          /\ UNCHANGED <<quantity, counter, authVars, locs, locations,
                         currentLocation, collVars, cartVars, obsVars>>
       \/ Throw(s, t)

\* s1 is the superadmin on the locations page; s2 is the superadmin on its
\* users page, or an admin
InitLocations ==
  /\ quantity = [p \in Products |-> 0]
  /\ initialQuantity = quantity
  /\ products = [s \in Sessions |-> Reload(quantity)]
  /\ items = [s \in Sessions |-> EmptyCart]
  /\ pending = [s \in Sessions |-> {}]
  /\ watch = FALSE
  /\ overlap = MaxInFlight
  /\ backlog = MaxFetch
  /\ listening = FALSE
  /\ report = [s \in Sessions |-> NoFailure]
  /\ trip = [s \in Sessions |-> Idle]
  /\ users = [u \in UserIds |->
               IF u = "root" THEN UserData("superadmin", Null)
               ELSE IF u = "adm" THEN UserData("admin", "L1")
               ELSE IF u = "mgr" THEN UserData("manager", Null)
               ELSE UserData("salesperson", "L1")]
  /\ locs = Locations
  /\ locationActive = [l \in Locations |-> TRUE]
  /\ counter = NoCounter
  /\ coll = "sales"
  /\ docs = {}
  /\ \E who \in {"root", "adm"} :
       currentUser = [s \in Sessions |->
                        IF s = "s1" THEN UserOf("root") ELSE UserOf(who)]
  /\ firebaseUser = [s \in Sessions |-> currentUser[s].uid]
  /\ authTask = [s \in Sessions |-> {}]
  /\ currentLocation = [s \in Sessions |-> "L1"]
  /\ locations = [s \in Sessions |-> LocationsFor(currentUser[s])]
  /\ locTask = [s \in Sessions |-> {}]
  /\ list = [s \in Sessions |-> EmptyList]
  /\ fetch = [s \in Sessions |-> {}]

LocationsStep ==
  \E s \in Sessions :
    \/ \E l \in Locations : DeleteLocation(s, l)
    \/ LocationUsersChecked(s)
    \/ LocationDeactivated(s)
    \/ LocationsLoaded(s)
    \/ \E u \in Managed, l \in Locations \cup {Null} :
         SuperUpdateUserLocation(s, u, l)

SpecLocations == InitLocations /\ [][LocationsStep]_vars

\* C30: deleteLocation never removes a location document: a caller that is
\* not the superadmin fails with no write, a call for a location with at
\* least one assigned user fails with no write, and otherwise the location
\* is only set inactive. Consequently no location is deactivated while a
\* user is assigned to it, also when the user is assigned while the
\* deletion is under way.
NeverDeactivatedWhileAssigned ==
  [][/\ locs' = locs
     /\ \A s \in Sessions, l \in Locations :
          (currentUser[s].role # "superadmin" /\ DeleteLocation(s, l))
            => /\ locationActive' = locationActive
               /\ pending' = pending
               /\ report'[s] = "thrown"
     /\ \A s \in Sessions :
          \A t \in pending[s] \ pending'[s] :
            (t.op = "deleteLocation" /\ t.pc = "getDocs"
              /\ UsersSnapshot(t.locationId) # {})
              => /\ locationActive' = locationActive
                 /\ \A u \in pending'[s] : u.slot # t.slot
                 /\ report'[s] = "thrown"
     /\ \A l \in Locations :
          (locationActive[l] /\ ~locationActive'[l]) => UsersSnapshot(l) = {}
    ]_vars
====
